---------------------------- MODULE Spec2Model ----------------------------
(***************************************************************************)
(* A model of the rust-sfml binding layer: the VertexArray wrapper         *)
(* (graphics/vertex_array.rs), the TcpSocket wrapper                       *)
(* (network/tcp_socket.rs) and the sound_capture example program           *)
(* (examples/sound_capture/main.rs).                                       *)
(*                                                                         *)
(* The native library is an opaque collaborator.  It is modelled only as   *)
(* far as the wrappers observe it: a heap of native objects addressed by   *)
(* handles, the fields the wrappers read back, and the codes it returns.   *)
(* A foreign call on a handle that is not a live native object (null, or   *)
(* already destroyed) is undefined behaviour: the model records what went  *)
(* wrong in vaBad / tcpBad and stops following that run.                   *)
(*                                                                         *)
(* Three specifications, one per piece of the repository:                  *)
(*   SpecVertexArray, SpecTcpSocket, SpecSoundCapture.                     *)
(***************************************************************************)
EXTENDS Integers, Sequences, FiniteSets

VARIABLES
    vaWrap,     \* VertexArray values: slot -> Nil | the handle field `vertexArray`
    vaObj,      \* native sfVertexArray objects: handle -> record
    vaBad,      \* "none", or the undefined foreign call a VertexArray made
    vaRet       \* what the last VertexArray operation did and returned

VARIABLES
    tcpWrap,    \* TcpSocket values: slot -> Nil | the handle field `socket`
    sockObj,    \* native sfTcpSocket objects: handle -> record
    tcpBad,     \* "none", or the undefined foreign call a TcpSocket made
    tcpRet      \* what the last TcpSocket operation did and returned

VARIABLES
    pc,         \* where main() of the sound_capture example is
    sampleRate, \* `sample_rate`, 0 before it is read
    recorder,   \* `recorder`: "none", "idle", "recording", "stopped", "dropped"
    bufOwner,   \* whether main's `buffer` binding holds its Rc
    bufStrong,  \* strong count of the Rc<RefCell<SoundBuffer>>
    bufDestroys,\* how many times the native sound buffer was destroyed
    sounds,     \* rc::Sound values: slot -> record
    sndRet      \* what the last step of the example did and returned

vaVars == <<vaWrap, vaObj, vaBad, vaRet>>

sndVars == <<pc, sampleRate, recorder, bufOwner, bufStrong, bufDestroys,
             sounds, sndRet>>

tcpVars == <<tcpWrap, sockObj, tcpBad, tcpRet>>

vars == <<vaWrap, vaObj, vaBad, vaRet, tcpWrap, sockObj, tcpBad, tcpRet,
          pc, sampleRate, recorder, bufOwner, bufStrong, bufDestroys,
          sounds, sndRet>>

\* Each component leaves the others' state alone.
VAFrame == UNCHANGED <<tcpVars, sndVars>>

TcpFrame == UNCHANGED <<vaVars, sndVars>>

SndFrame == UNCHANGED <<vaVars, tcpVars>>

---------------------------------------------------------------------------
(* Bounds of the model. *)

\* Native vertex arrays that can exist, and VertexArray values at a time.
MaxHandles == 1

MaxWrappers == 2

\* Vertices a native vertex array can hold.
MaxVertices == 1

\* Native sockets that can exist, and TcpSocket values at a time.
MaxSockets == 1

MaxTcpWrappers == 2

\* Bytes in one send, one receive, one arrival from the peer.
MaxLen == 1

MaxSounds == 2

MaxRate == 2

---------------------------------------------------------------------------
(* Shared vocabulary. *)

NULL == 0

\* An empty slot: no wrapper value lives there.
Nil == 0 - 1

\* No primitive type set through the wrapper yet.
NoPrim == "none"

---------------------------------------------------------------------------
(* graphics/vertex_array.rs *)

sfPoints == 0

sfLines == 1

sfLinesStrip == 2

sfTriangles == 3

sfTrianglesStrip == 4

sfTrianglesFan == 5

sfQuads == 6

PrimitiveType ==
    {"Points", "Lines", "LinesStrip", "Triangles", "TrianglesStrip",
     "TrianglesFan", "Quads"}

\* The code set_primitive_type passes to sfVertexArray_setPrimitiveType.
PrimToForeign(primitiveType) ==
    CASE primitiveType = "Points"         -> sfPoints
      [] primitiveType = "Lines"          -> sfLines
      [] primitiveType = "LinesStrip"     -> sfLinesStrip
      [] primitiveType = "Triangles"      -> sfTriangles
      [] primitiveType = "TrianglesStrip" -> sfTrianglesStrip
      [] primitiveType = "TrianglesFan"   -> sfTrianglesFan
      [] primitiveType = "Quads"          -> sfQuads

\* get_primitive_type with the two triangle arms crossed.
ForeignToPrimCrossed(code) ==
    CASE code = sfPoints         -> "Points"
      [] code = sfLines          -> "Lines"
      [] code = sfLinesStrip     -> "LinesStrip"
      [] code = sfTriangles      -> "Triangles"
      [] code = sfTrianglesStrip -> "TrianglesFan"
      [] code = sfTrianglesFan   -> "TrianglesStrip"
      [] code = sfQuads          -> "Quads"
      [] OTHER                   -> "Points"

\* The variant get_primitive_type makes of sfVertexArray_getPrimitiveType's code.
ForeignToPrim(code) ==
    CASE code = sfPoints         -> "Points"
      [] code = sfLines          -> "Lines"
      [] code = sfLinesStrip     -> "LinesStrip"
      [] code = sfTriangles      -> "Triangles"
      [] code = sfTrianglesStrip -> "TrianglesStrip"
      [] code = sfTrianglesFan   -> "TrianglesFan"
      [] code = sfQuads          -> "Quads"
      [] OTHER                   -> "Points"

VAHandles == 1..MaxHandles

VASlots == 1..MaxWrappers

\* A code the native library could return that no variant stands for.
UnmappedPrim == sfQuads + 1

PrimCodes == sfPoints..UnmappedPrim

\* A native object that was never created.
VAFree == [alloc |-> FALSE, destroys |-> 0, owned |-> FALSE,
           prim |-> sfPoints, count |-> 0, lastSet |-> NoPrim]

\* What sfVertexArray_create makes: an empty array of points.
VAFresh(code, count) ==
    [alloc |-> TRUE, destroys |-> 0, owned |-> FALSE,
     prim |-> code, count |-> count, lastSet |-> NoPrim]

VALive(h) == h \in VAHandles /\ vaObj[h].alloc /\ vaObj[h].destroys = 0

\* Why a foreign call on h is undefined ("none" when it is defined).
VAFault(h) ==
    IF h = NULL THEN "null"
    ELSE IF VALive(h) THEN "none"
    ELSE "freed"

\* What a native factory can return: a new object's handle, or null.
VAFactory == {NULL} \cup
    (IF \E h \in VAHandles : ~vaObj[h].alloc
     THEN {CHOOSE h \in VAHandles :
             ~vaObj[h].alloc /\ \A g \in VAHandles : ~vaObj[g].alloc => h <= g}
     ELSE {})

VARet(op, w, h, code, val) ==
    [op |-> op, w |-> w, h |-> h, code |-> code, val |-> val]

VAUndefined(op, w, h, fault) ==
    /\ vaBad' = fault
    /\ vaRet' = VARet(op, w, h, 0, "undefined")
    /\ UNCHANGED <<vaWrap, vaObj>>
    /\ VAFrame

VAInit ==
    /\ vaWrap = [w \in VASlots |-> Nil]
    /\ vaObj = [h \in VAHandles |-> VAFree]
    /\ vaBad = "none"
    /\ vaRet = VARet("init", 0, NULL, 0, "")

\* VertexArray::new: the factory's handle goes into the wrapper unchecked.
VANew(w) ==
    /\ vaBad = "none"
    /\ vaWrap[w] = Nil
    /\ \E h \in VAFactory :
         /\ vaWrap' = [vaWrap EXCEPT ![w] = h]
         /\ vaObj' = IF h = NULL THEN vaObj
                     ELSE [vaObj EXCEPT ![h] =
                             [VAFresh(sfPoints, 0) EXCEPT !.owned = TRUE]]
         /\ vaRet' = VARet("new", w, h, 0, "wrapper")
    /\ UNCHANGED vaBad
    /\ VAFrame

\* VertexArray::new_copy: sfVertexArray_copy(src.unwrap()), unchecked.
VANewCopy(w, src) ==
    /\ vaBad = "none"
    /\ vaWrap[w] = Nil
    /\ vaWrap[src] # Nil
    /\ IF VAFault(vaWrap[src]) # "none"
       THEN VAUndefined("new_copy", w, vaWrap[src], VAFault(vaWrap[src]))
       ELSE /\ \E h \in VAFactory :
                 /\ vaWrap' = [vaWrap EXCEPT ![w] = h]
                 /\ vaObj' = IF h = NULL THEN vaObj
                             ELSE [vaObj EXCEPT ![h] =
                                     [VAFresh(vaObj[vaWrap[src]].prim,
                                              vaObj[vaWrap[src]].count)
                                        EXCEPT !.owned = TRUE]]
                 /\ vaRet' = VARet("new_copy", w, h, 0, "wrapper")
            /\ UNCHANGED vaBad
            /\ VAFrame

\* An accessor or mutator: one foreign call on the wrapper's handle.
VACall(op, w, obj, code, val) ==
    /\ vaBad = "none"
    /\ vaWrap[w] # Nil
    /\ IF VAFault(vaWrap[w]) # "none"
       THEN VAUndefined(op, w, vaWrap[w], VAFault(vaWrap[w]))
       ELSE /\ vaObj' = [vaObj EXCEPT ![vaWrap[w]] = obj]
            /\ vaRet' = VARet(op, w, vaWrap[w], code, val)
            /\ UNCHANGED <<vaWrap, vaBad>>
            /\ VAFrame

\* The native object behind slot w (VAFree when the handle is not live).
VAOf(w) == IF VALive(vaWrap[w]) THEN vaObj[vaWrap[w]] ELSE VAFree

VAGetVertexCount(w) ==
    VACall("get_vertex_count", w, VAOf(w), VAOf(w).count, "")

VAClear(w) ==
    VACall("clear", w, [VAOf(w) EXCEPT !.count = 0], 0, "")

VAResize(w, vertexCount) ==
    VACall("resize", w, [VAOf(w) EXCEPT !.count = vertexCount], vertexCount, "")

VAAppend(w) ==
    /\ VAOf(w).count < MaxVertices
    /\ VACall("append", w, [VAOf(w) EXCEPT !.count = @ + 1], 0, "")

VAGetBounds(w) ==
    VACall("get_bounds", w, VAOf(w), VAOf(w).count, "")

VASetPrimitiveType(w, primitiveType) ==
    VACall("set_primitive_type", w,
           [VAOf(w) EXCEPT !.prim = PrimToForeign(primitiveType),
                           !.lastSet = primitiveType],
           PrimToForeign(primitiveType), primitiveType)

VAGetPrimitiveType(w) ==
    VACall("get_primitive_type", w, VAOf(w),
           VAOf(w).prim, ForeignToPrim(VAOf(w).prim))

\* VertexArray::unwrap: the raw handle, the wrapper keeps it too.
VAUnwrap(w) ==
    /\ vaBad = "none"
    /\ vaWrap[w] # Nil
    /\ vaRet' = VARet("unwrap", w, vaWrap[w], 0, "")
    /\ UNCHANGED <<vaWrap, vaObj, vaBad>>
    /\ VAFrame

\* Native code makes a vertex array of its own and hands the raw handle over.
VANativeCreate(code) ==
    /\ vaBad = "none"
    /\ \E h \in VAFactory \ {NULL} :
         /\ vaObj' = [vaObj EXCEPT ![h] = VAFresh(code, 0)]
         /\ vaRet' = VARet("native_create", 0, h, code, "")
    /\ UNCHANGED <<vaWrap, vaBad>>
    /\ VAFrame

\* The raw handles the program holds: the last unwrap's or native creation's.
VARawHandles ==
    IF vaRet.op \in {"unwrap", "native_create"} THEN {vaRet.h} ELSE {}

\* VertexArray::wrap: a new wrapper around any raw handle.
VAWrapRaw(w) ==
    /\ vaBad = "none"
    /\ vaWrap[w] = Nil
    /\ \E h \in VARawHandles :
         /\ vaWrap' = [vaWrap EXCEPT ![w] = h]
         /\ vaObj' = IF h \in VAHandles
                     THEN [vaObj EXCEPT ![h].owned = TRUE]
                     ELSE vaObj
         /\ vaRet' = VARet("wrap", w, h, 0, "wrapper")
    /\ UNCHANGED vaBad
    /\ VAFrame

\* Drop for VertexArray: sfVertexArray_destroy on the handle, whatever it is.
VADrop(w) ==
    /\ vaBad = "none"
    /\ vaWrap[w] # Nil
    /\ vaWrap' = [vaWrap EXCEPT ![w] = Nil]
    /\ vaRet' = VARet("drop", w, vaWrap[w], 0, "")
    /\ VAFrame
    /\ vaBad' = IF vaWrap[w] = NULL THEN "null"
                ELSE IF VALive(vaWrap[w]) THEN "none"
                ELSE "double_destroy"
    /\ vaObj' = IF vaWrap[w] = NULL THEN vaObj
                ELSE [vaObj EXCEPT ![vaWrap[w]] =
                        [VAFree EXCEPT !.alloc = TRUE, !.owned = TRUE,
                                       !.destroys = vaObj[vaWrap[w]].destroys + 1]]

VANext ==
    \/ \E w \in VASlots : VANew(w)
    \/ \E w, src \in VASlots : VANewCopy(w, src)
    \/ \E w \in VASlots : VAGetVertexCount(w)
    \/ \E w \in VASlots : VAClear(w)
    \/ \E w \in VASlots, n \in 0..MaxVertices : VAResize(w, n)
    \/ \E w \in VASlots : VAAppend(w)
    \/ \E w \in VASlots : VAGetBounds(w)
    \/ \E w \in VASlots, p \in PrimitiveType : VASetPrimitiveType(w, p)
    \/ \E w \in VASlots : VAGetPrimitiveType(w)
    \/ \E w \in VASlots : VAUnwrap(w)
    \/ \E c \in PrimCodes : VANativeCreate(c)
    \/ \E w \in VASlots : VAWrapRaw(w)
    \/ \E w \in VASlots : VADrop(w)

---------------------------------------------------------------------------
(* network/tcp_socket.rs *)

SFTRUE == "SFTRUE"

SFFALSE == "SFFALSE"

\* network::SocketStatus, variant i having discriminant i - 1.
SocketStatus == <<"Done", "NotReady", "Disconnected", "Error">>

StatusNames == {SocketStatus[i] : i \in DOMAIN SocketStatus}

KnownCodes == {i - 1 : i \in DOMAIN SocketStatus}

\* A code the native library could return that no variant stands for.
UnmappedStatus == Len(SocketStatus)

StatusCodes == KnownCodes \cup {UnmappedStatus}

\* mem::transmute(code as i8): the variant with that discriminant.  A code
\* that is no variant's discriminant makes an invalid enum value: undefined,
\* any variant or none may be observed.
Transmute(code) ==
    IF code \in KnownCodes THEN {SocketStatus[code + 1]}
    ELSE StatusNames \cup {"Invalid"}

\* set_blocking with its two arms crossed.
BoolToSfCrossed(blocking) == IF blocking THEN SFFALSE ELSE SFTRUE

\* The sfBool set_blocking passes to sfTcpSocket_setBlocking.
BoolToSf(blocking) == IF blocking THEN SFTRUE ELSE SFFALSE

\* The bool is_blocking makes of sfTcpSocket_isBlocking's sfBool.
SfToBool(b) ==
    CASE b = SFFALSE -> FALSE
      [] b = SFTRUE  -> TRUE

Bytes == {0, 1}

\* The byte strings of length at most n.
BytesUpTo(n) == UNION {[1..k -> Bytes] : k \in 0..n}

Sockets == 1..MaxSockets

TcpSlots == 1..MaxTcpWrappers

\* A native socket that was never created.
SockFree == [alloc |-> FALSE, destroys |-> 0, blocking |-> SFTRUE,
             conn |-> FALSE, want |-> TRUE]

\* What sfTcpSocket_create makes: "By default, all sockets are blocking".
SockFresh == [SockFree EXCEPT !.alloc = TRUE]

SockLive(h) == h \in Sockets /\ sockObj[h].alloc /\ sockObj[h].destroys = 0

SockFault(h) ==
    IF h = NULL THEN "null"
    ELSE IF SockLive(h) THEN "none"
    ELSE "freed"

SockFactory == {NULL} \cup
    (IF \E h \in Sockets : ~sockObj[h].alloc
     THEN {CHOOSE h \in Sockets :
             ~sockObj[h].alloc /\ \A g \in Sockets : ~sockObj[g].alloc => h <= g}
     ELSE {})

\* The native socket behind slot w (SockFree when the handle is not live).
SockOf(w) == IF SockLive(tcpWrap[w]) THEN sockObj[tcpWrap[w]] ELSE SockFree

\* op: the operation; w, h: the slot and its handle; calls: the foreign entry
\* points it invoked, in order; code: the foreign return code; status: the
\* SocketStatus returned ("" when the operation returns none).
TcpRet(op, w, h, calls, code, status) ==
    [op |-> op, w |-> w, h |-> h, calls |-> calls, code |-> code,
     status |-> status, size |-> 0, data |-> <<>>, cap |-> 0, max |-> 0,
     pkt |-> Nil, flag |-> FALSE, val |-> ""]

TcpUndefined(op, w, h, fault) ==
    /\ tcpBad' = fault
    /\ tcpRet' = [TcpRet(op, w, h, <<>>, 0, "") EXCEPT !.val = "undefined"]
    /\ UNCHANGED <<tcpWrap, sockObj>>
    /\ TcpFrame

TcpInit ==
    /\ tcpWrap = [w \in TcpSlots |-> Nil]
    /\ sockObj = [h \in Sockets |-> SockFree]
    /\ tcpBad = "none"
    /\ tcpRet = TcpRet("init", 0, NULL, <<>>, 0, "")

\* TcpSocket::new: None when sfTcpSocket_create returns null.
TcpNew(w) ==
    /\ tcpBad = "none"
    /\ tcpWrap[w] = Nil
    /\ \E tcp \in SockFactory :
         IF tcp = NULL
         THEN /\ tcpRet' = [TcpRet("new", w, tcp, <<"sfTcpSocket_create">>, 0, "")
                              EXCEPT !.val = "None"]
              /\ UNCHANGED <<tcpWrap, sockObj>>
         ELSE /\ tcpWrap' = [tcpWrap EXCEPT ![w] = tcp]
              /\ sockObj' = [sockObj EXCEPT ![tcp] = SockFresh]
              /\ tcpRet' = [TcpRet("new", w, tcp, <<"sfTcpSocket_create">>, 0, "")
                              EXCEPT !.val = "Some"]
    /\ UNCHANGED tcpBad
    /\ TcpFrame

\* A method that makes one foreign call on self.socket: the native object
\* becomes obj and the method returns ret.
TcpCall(w, obj, ret) ==
    /\ tcpBad = "none"
    /\ tcpWrap[w] # Nil
    /\ IF SockFault(tcpWrap[w]) # "none"
       THEN TcpUndefined(ret.op, w, tcpWrap[w], SockFault(tcpWrap[w]))
       ELSE /\ sockObj' = [sockObj EXCEPT ![tcpWrap[w]] = obj]
            /\ tcpRet' = ret
            /\ UNCHANGED <<tcpWrap, tcpBad>>
            /\ TcpFrame

SetBlocking(w, blocking) ==
    TcpCall(w, [SockOf(w) EXCEPT !.blocking = BoolToSf(blocking),
                                 !.want = blocking],
            [TcpRet("set_blocking", w, tcpWrap[w],
                    <<"sfTcpSocket_setBlocking">>, 0, "")
               EXCEPT !.flag = blocking])

IsBlocking(w) ==
    TcpCall(w, SockOf(w),
            [TcpRet("is_blocking", w, tcpWrap[w],
                    <<"sfTcpSocket_isBlocking">>, 0, "")
               EXCEPT !.flag = SfToBool(SockOf(w).blocking)])

GetLocalPort(w) ==
    TcpCall(w, SockOf(w),
            TcpRet("get_local_port", w, tcpWrap[w],
                   <<"sfTcpSocket_getLocalPort">>, 0, ""))

GetRemoteAddress(w) ==
    TcpCall(w, SockOf(w),
            TcpRet("get_remote_address", w, tcpWrap[w],
                   <<"sfTcpSocket_getRemoteAddress">>, 0, ""))

GetRemotePort(w) ==
    TcpCall(w, SockOf(w),
            TcpRet("get_remote_port", w, tcpWrap[w],
                   <<"sfTcpSocket_getRemotePort">>, 0, ""))

\* The codes a native transfer can return: Done only on a connected socket.
TransferCodes(w) ==
    IF SockOf(w).conn THEN StatusCodes ELSE StatusCodes \ {0}

\* The connection after a native call returned code: lost on Disconnected.
ConnAfter(w, code) == SockOf(w).conn /\ code # 2

\* One sfTcpSocket_connect; its code transmuted is the result.
Connect(w) ==
    \E code \in StatusCodes : \E st \in Transmute(code) :
        TcpCall(w, [SockOf(w) EXCEPT !.conn = (code = 0)],
                TcpRet("connect", w, tcpWrap[w],
                       <<"sfTcpSocket_connect">>, code, st))

Disconnect(w) ==
    TcpCall(w, [SockOf(w) EXCEPT !.conn = FALSE],
            TcpRet("disconnect", w, tcpWrap[w],
                   <<"sfTcpSocket_disconnect">>, 0, ""))

\* send that tries once more when the native call says NotReady.
SendRetry(w, data) ==
    \E code \in TransferCodes(w) : \E st \in Transmute(code) :
        TcpCall(w, [SockOf(w) EXCEPT !.conn = ConnAfter(w, code)],
                [TcpRet("send", w, tcpWrap[w],
                        IF code = 1
                        THEN <<"sfTcpSocket_send", "sfTcpSocket_send">>
                        ELSE <<"sfTcpSocket_send">>, code, st)
                   EXCEPT !.data = data, !.size = Len(data)])

\* One sfTcpSocket_send of data.as_ptr(), data.len().
Send(w, data) ==
    \E code \in TransferCodes(w) : \E st \in Transmute(code) :
        TcpCall(w, [SockOf(w) EXCEPT !.conn = ConnAfter(w, code)],
                [TcpRet("send", w, tcpWrap[w], <<"sfTcpSocket_send">>, code, st)
                   EXCEPT !.data = data, !.size = Len(data)])

\* What sfTcpSocket_receive can do with a buffer of cap bytes when told it
\* may write maxSize: [code, bytes written], or "undefined" when it writes
\* past the buffer.  With room for maxSize bytes it delivers a prefix of the
\* incoming bytes; without, it either refuses to write or writes anyway.
ForeignReceive(cap, maxSize, incoming, codes) ==
    IF cap >= maxSize
    THEN {[code |-> c, written |-> <<>>, undefined |-> FALSE] : c \in codes}
         \cup {[code |-> 0, written |-> SubSeq(incoming, 1, n), undefined |-> FALSE] :
                 n \in {k \in 1..Len(incoming) : k <= maxSize /\ 0 \in codes}}
    ELSE {[code |-> c, written |-> <<>>, undefined |-> FALSE] : c \in codes \ {0}}
         \cup {[code |-> 0, written |-> <<>>, undefined |-> TRUE]}

\* receive: `datas` is ptr::null_mut(), so the native call gets a buffer of
\* no bytes; the result is the `s` bytes found at `datas`, the status, `s`.
Receive(w, max_size) ==
    \E r \in UNION {ForeignReceive(0, max_size, incoming, TransferCodes(w)) :
                      incoming \in BytesUpTo(MaxLen)} :
        IF r.undefined /\ SockFault(tcpWrap[w]) = "none"
        THEN /\ tcpBad = "none"
             /\ tcpWrap[w] # Nil
             /\ TcpUndefined("receive", w, tcpWrap[w], "null_buffer")
        ELSE \E st \in Transmute(r.code) :
               TcpCall(w, [SockOf(w) EXCEPT !.conn = ConnAfter(w, r.code)],
                       [TcpRet("receive", w, tcpWrap[w],
                               <<"sfTcpSocket_receive">>, r.code, st)
                          EXCEPT !.size = Len(r.written), !.data = r.written,
                                 !.cap = 0, !.max = max_size])

\* The packet handles the program can pass: a live packet of its own, and
\* the handle inside the Packet receive_packet just returned.
LivePacket == 1

TcpPackets ==
    {LivePacket} \cup (IF tcpRet.op = "receive_packet" /\ tcpRet.pkt # Nil
                       THEN {tcpRet.pkt} ELSE {})

\* One sfTcpSocket_sendPacket of packet.unwrap().
SendPacket(w) ==
    \E packet \in TcpPackets :
        IF packet = NULL /\ SockFault(tcpWrap[w]) = "none"
        THEN /\ tcpBad = "none"
             /\ tcpWrap[w] # Nil
             /\ TcpUndefined("send_packet", w, tcpWrap[w], "null_packet")
        ELSE \E code \in TransferCodes(w) : \E st \in Transmute(code) :
               TcpCall(w, [SockOf(w) EXCEPT !.conn = ConnAfter(w, code)],
                       [TcpRet("send_packet", w, tcpWrap[w],
                               <<"sfTcpSocket_sendPacket">>, code, st)
                          EXCEPT !.pkt = packet])

\* What sfTcpSocket_receivePacket can do with the packet handle it is given:
\* fill a live packet, refuse a null one, or dereference it.
ForeignReceivePacket(packet, codes) ==
    IF packet # NULL
    THEN {[code |-> c, undefined |-> FALSE] : c \in codes}
    ELSE {[code |-> c, undefined |-> FALSE] : c \in codes \ {0}}
         \cup {[code |-> 0, undefined |-> TRUE]}

\* receive_packet: `pack` is ptr::null_mut(); the native call gets it and
\* the result is Wrappable::wrap(pack) with the status.
ReceivePacket(w) ==
    \E r \in ForeignReceivePacket(NULL, TransferCodes(w)) :
        IF r.undefined /\ SockFault(tcpWrap[w]) = "none"
        THEN /\ tcpBad = "none"
             /\ tcpWrap[w] # Nil
             /\ TcpUndefined("receive_packet", w, tcpWrap[w], "null_packet")
        ELSE \E st \in Transmute(r.code) :
               TcpCall(w, [SockOf(w) EXCEPT !.conn = ConnAfter(w, r.code)],
                       [TcpRet("receive_packet", w, tcpWrap[w],
                               <<"sfTcpSocket_receivePacket">>, r.code, st)
                          EXCEPT !.pkt = NULL])

\* Wrappable::unwrap: the raw handle, the wrapper keeps it too.
TcpUnwrap(w) ==
    /\ tcpBad = "none"
    /\ tcpWrap[w] # Nil
    /\ tcpRet' = TcpRet("unwrap", w, tcpWrap[w], <<>>, 0, "")
    /\ UNCHANGED <<tcpWrap, sockObj, tcpBad>>
    /\ TcpFrame

\* Wrappable::wrap: a new TcpSocket around the raw handle just unwrapped.
TcpWrapRaw(w) ==
    /\ tcpBad = "none"
    /\ tcpWrap[w] = Nil
    /\ tcpRet.op = "unwrap"
    /\ tcpWrap' = [tcpWrap EXCEPT ![w] = tcpRet.h]
    /\ tcpRet' = TcpRet("wrap", w, tcpRet.h, <<>>, 0, "")
    /\ UNCHANGED <<sockObj, tcpBad>>
    /\ TcpFrame

\* Drop for TcpSocket: sfTcpSocket_destroy on the handle, whatever it is.
TcpDrop(w) ==
    /\ tcpBad = "none"
    /\ tcpWrap[w] # Nil
    /\ tcpWrap' = [tcpWrap EXCEPT ![w] = Nil]
    /\ tcpRet' = TcpRet("drop", w, tcpWrap[w], <<"sfTcpSocket_destroy">>, 0, "")
    /\ TcpFrame
    /\ tcpBad' = IF tcpWrap[w] = NULL THEN "null"
                 ELSE IF SockLive(tcpWrap[w]) THEN "none"
                 ELSE "double_destroy"
    /\ sockObj' = IF tcpWrap[w] = NULL THEN sockObj
                  ELSE [sockObj EXCEPT ![tcpWrap[w]] =
                          [SockFree EXCEPT !.alloc = TRUE,
                                           !.destroys = sockObj[tcpWrap[w]].destroys + 1]]

TcpNext ==
    \/ \E w \in TcpSlots : TcpNew(w)
    \/ \E w \in TcpSlots, b \in BOOLEAN : SetBlocking(w, b)
    \/ \E w \in TcpSlots : IsBlocking(w)
    \/ \E w \in TcpSlots : GetLocalPort(w)
    \/ \E w \in TcpSlots : GetRemoteAddress(w)
    \/ \E w \in TcpSlots : GetRemotePort(w)
    \/ \E w \in TcpSlots : Connect(w)
    \/ \E w \in TcpSlots : Disconnect(w)
    \/ \E w \in TcpSlots, data \in BytesUpTo(MaxLen) : Send(w, data)
    \/ \E w \in TcpSlots, n \in 0..MaxLen : Receive(w, n)
    \/ \E w \in TcpSlots : SendPacket(w)
    \/ \E w \in TcpSlots : ReceivePacket(w)
    \/ \E w \in TcpSlots : TcpUnwrap(w)
    \/ \E w \in TcpSlots : TcpWrapRaw(w)
    \/ \E w \in TcpSlots : TcpDrop(w)

---------------------------------------------------------------------------
(* examples/sound_capture/main.rs *)

SoundSlots == 1..MaxSounds

\* The sample rates the user can type.
Rates == 1..MaxRate

\* A sound that starts out playing.
SoundNewStatusPlaying == "Playing"

\* The status of a sound that was constructed and never played.
SoundNewStatus == "Stopped"

NoSound == [st |-> "none", status |-> SoundNewStatus, played |-> FALSE]

SndRet(op, s, val) == [op |-> op, s |-> s, val |-> val]

\* Rc::clone: one more strong reference.
RcClone(strong) == strong + 1

\* Dropping one Rc: the strong count after it.
RcDrop(strong) == strong - 1

\* Dropping n Rcs of a buffer with the given strong count destroys the
\* native buffer when, and only when, the count reaches zero.
DestroysAfterDrop(strong, n) ==
    IF strong > 0 /\ strong - n <= 0 THEN bufDestroys + 1 ELSE bufDestroys

LiveSounds == {s \in SoundSlots : sounds[s].st = "live"}

SndInit ==
    /\ pc = "check"
    /\ sampleRate = 0
    /\ recorder = "none"
    /\ bufOwner = FALSE
    /\ bufStrong = 0
    /\ bufDestroys = 0
    /\ sounds = [s \in SoundSlots |-> NoSound]
    /\ sndRet = SndRet("init", 0, "")

\* panic!: the stack unwinds and every live local is dropped: the sounds,
\* then `buffer`, then `recorder`.
Panic(op) ==
    /\ pc' = "panicked"
    /\ sounds' = [s \in SoundSlots |->
                    IF sounds[s].st = "live"
                    THEN [sounds[s] EXCEPT !.st = "dropped"] ELSE sounds[s]]
    /\ bufOwner' = FALSE
    /\ bufStrong' = 0
    /\ bufDestroys' = DestroysAfterDrop(bufStrong, bufStrong)
    /\ recorder' = IF recorder = "none" THEN "none" ELSE "dropped"
    /\ sndRet' = SndRet(op, 0, "panic")
    /\ UNCHANGED sampleRate
    /\ SndFrame

\* A step of main that only moves on.
Goto(op, to) ==
    /\ pc' = to
    /\ sndRet' = SndRet(op, 0, "")
    /\ UNCHANGED <<sampleRate, recorder, bufOwner, bufStrong, bufDestroys, sounds>>
    /\ SndFrame

CheckAvailable ==
    /\ pc = "check"
    /\ \E available \in BOOLEAN :
         IF available THEN Goto("is_available", "ask_rate")
         ELSE Panic("is_available")

ChooseRate ==
    /\ pc = "ask_rate"
    /\ \E line \in Rates \cup {0} :
         IF line \in Rates
         THEN /\ pc' = "wait_start"
              /\ sampleRate' = line
              /\ sndRet' = SndRet("parse", 0, "")
              /\ UNCHANGED <<recorder, bufOwner, bufStrong, bufDestroys, sounds>>
              /\ SndFrame
         ELSE Panic("parse")

WaitStart ==
    /\ pc = "wait_start"
    /\ Goto("read_line", "new_recorder")

NewRecorder ==
    /\ pc = "new_recorder"
    /\ \E made \in BOOLEAN :
         IF made
         THEN /\ pc' = "start"
              /\ recorder' = "idle"
              /\ sndRet' = SndRet("SoundBufferRecorder::new", 0, "Some")
              /\ UNCHANGED <<sampleRate, bufOwner, bufStrong, bufDestroys, sounds>>
              /\ SndFrame
         ELSE Panic("SoundBufferRecorder::new")

StartRecording ==
    /\ pc = "start"
    /\ pc' = "recording"
    /\ recorder' = "recording"
    /\ sndRet' = SndRet("start", 0, "")
    /\ UNCHANGED <<sampleRate, bufOwner, bufStrong, bufDestroys, sounds>>
    /\ SndFrame

StopRecording ==
    /\ pc = "recording"
    /\ pc' = "get_buffer"
    /\ recorder' = "stopped"
    /\ sndRet' = SndRet("stop", 0, "")
    /\ UNCHANGED <<sampleRate, bufOwner, bufStrong, bufDestroys, sounds>>
    /\ SndFrame

\* recorder.get_buffer(): Some(buf) becomes Rc::new(RefCell::new(buf)).
GetBuffer ==
    /\ pc = "get_buffer"
    /\ \E got \in BOOLEAN :
         IF got
         THEN /\ pc' = "info"
              /\ bufOwner' = TRUE
              /\ bufStrong' = 1
              /\ sndRet' = SndRet("get_buffer", 0, "Some")
              /\ UNCHANGED <<sampleRate, recorder, bufDestroys, sounds>>
              /\ SndFrame
         ELSE Panic("get_buffer")

ShowInfo ==
    /\ pc = "info"
    /\ Goto("info", "choose")

Choose ==
    /\ pc = "choose"
    /\ \E resp \in {"s", "p"} :
         Goto("choose", IF resp = "s" THEN "save" ELSE "play")

Save ==
    /\ pc = "save"
    /\ Goto("save_to_file", "done")

\* new_with_buffer handed the buffer without the clone: the sound refers to
\* the buffer and the strong count does not know.
NewSoundNoClone(s) ==
    /\ pc = "play"
    /\ bufOwner
    /\ sounds[s].st = "none"
    /\ sounds' = [sounds EXCEPT ![s] = [NoSound EXCEPT !.st = "live"]]
    /\ sndRet' = SndRet("new_with_buffer", s, "Some")
    /\ UNCHANGED <<pc, sampleRate, recorder, bufOwner, bufStrong, bufDestroys>>
    /\ SndFrame

\* rc::Sound::new_with_buffer(buffer.clone()): the clone moves into the
\* sound; when the native sound cannot be made the clone is dropped again,
\* None comes back and main panics.
NewSoundWithBuffer(s) ==
    /\ pc = "play"
    /\ bufOwner
    /\ sounds[s].st = "none"
    /\ \E made \in BOOLEAN :
         IF made
         THEN /\ sounds' = [sounds EXCEPT ![s] = [NoSound EXCEPT !.st = "live"]]
              /\ bufStrong' = RcClone(bufStrong)
              /\ sndRet' = SndRet("new_with_buffer", s, "Some")
              /\ UNCHANGED <<pc, sampleRate, recorder, bufOwner, bufDestroys>>
              /\ SndFrame
         ELSE Panic("new_with_buffer")

\* sound.play()
Play(s) ==
    /\ pc = "play"
    /\ sounds[s].st = "live"
    /\ sounds' = [sounds EXCEPT ![s].status = "Playing", ![s].played = TRUE]
    /\ sndRet' = SndRet("play", s, "")
    /\ UNCHANGED <<pc, sampleRate, recorder, bufOwner, bufStrong, bufDestroys>>
    /\ SndFrame

\* sound.get_status(), as the polling loop asks it.
GetStatus(s) ==
    /\ pc = "play"
    /\ sounds[s].st = "live"
    /\ sndRet' = SndRet("get_status", s, sounds[s].status)
    /\ UNCHANGED <<pc, sampleRate, recorder, bufOwner, bufStrong, bufDestroys, sounds>>
    /\ SndFrame

\* The native library reaches the end of the buffer.
PlaybackEnds(s) ==
    /\ sounds[s].st = "live"
    /\ sounds[s].status = "Playing"
    /\ sounds' = [sounds EXCEPT ![s].status = "Stopped"]
    /\ sndRet' = SndRet("playback_ends", s, "")
    /\ UNCHANGED <<pc, sampleRate, recorder, bufOwner, bufStrong, bufDestroys>>
    /\ SndFrame

\* A sound goes out of scope: it gives up its reference to the buffer.
DropSound(s) ==
    /\ pc # "panicked"
    /\ sounds[s].st = "live"
    /\ sounds' = [sounds EXCEPT ![s].st = "dropped"]
    /\ bufStrong' = RcDrop(bufStrong)
    /\ bufDestroys' = DestroysAfterDrop(bufStrong, 1)
    /\ sndRet' = SndRet("drop_sound", s, "")
    /\ UNCHANGED <<pc, sampleRate, recorder, bufOwner>>
    /\ SndFrame

\* The polling loop breaks and the else block ends.
LeavePlay ==
    /\ pc = "play"
    /\ \A s \in LiveSounds : sounds[s].status # "Playing"
    /\ Goto("break", "done")

\* main returns: `buffer` and `recorder` are dropped.
Exit ==
    /\ pc = "done"
    /\ pc' = "exited"
    /\ bufOwner' = FALSE
    /\ bufStrong' = RcDrop(bufStrong)
    /\ bufDestroys' = DestroysAfterDrop(bufStrong, 1)
    /\ recorder' = "dropped"
    /\ sndRet' = SndRet("exit", 0, "")
    /\ UNCHANGED <<sampleRate, sounds>>
    /\ SndFrame

SndNext ==
    \/ CheckAvailable
    \/ ChooseRate
    \/ WaitStart
    \/ NewRecorder
    \/ StartRecording
    \/ StopRecording
    \/ GetBuffer
    \/ ShowInfo
    \/ Choose
    \/ Save
    \/ \E s \in SoundSlots : NewSoundWithBuffer(s)
    \/ \E s \in SoundSlots : Play(s)
    \/ \E s \in SoundSlots : GetStatus(s)
    \/ \E s \in SoundSlots : PlaybackEnds(s)
    \/ \E s \in SoundSlots : DropSound(s)
    \/ LeavePlay
    \/ Exit

---------------------------------------------------------------------------

Init == VAInit /\ TcpInit /\ SndInit

SpecVertexArray == Init /\ [][VANext]_vars

SpecTcpSocket == Init /\ [][TcpNext]_vars

SpecSoundCapture == Init /\ [][SndNext]_vars

---------------------------------------------------------------------------
(* The claims. *)

\* C1: a constructor (new, new_copy) whose native factory returns null
\* yields None and leaves no wrapper behind; one whose factory returns a
\* handle yields a wrapper holding exactly that handle.
C1_NullFactoryYieldsNone ==
    (vaRet.op \in {"new", "new_copy"} /\ vaRet.val # "undefined") =>
        IF vaRet.h = NULL
        THEN vaRet.val = "None" /\ vaWrap[vaRet.w] = Nil
        ELSE vaWrap[vaRet.w] = vaRet.h

\* C2: every native handle a wrapper owned is destroyed exactly once: never
\* twice, never used after it was destroyed, never owned by two live
\* wrappers, and destroyed once no wrapper holds it any more.
C2_DestroyedExactlyOnce ==
    /\ \A h \in VAHandles : vaObj[h].destroys <= 1
    /\ vaBad \notin {"freed", "double_destroy"}
    /\ \A w1, w2 \in VASlots :
         (w1 # w2 /\ vaWrap[w1] \in VAHandles) => vaWrap[w1] # vaWrap[w2]
    /\ \A h \in VAHandles :
         (vaObj[h].owned /\ \A w \in VASlots : vaWrap[w] # h)
            => vaObj[h].destroys = 1

\* C3: get_primitive_type returns the variant last given to
\* set_primitive_type on that vertex array, and a native code of 0..6 read
\* by get_primitive_type is the code set_primitive_type writes back for the
\* variant it was turned into.
C3_PrimitiveTypeRoundTrip ==
    /\ (vaRet.op = "get_primitive_type" /\ vaRet.val # "undefined"
          /\ vaObj[vaRet.h].lastSet # NoPrim)
          => vaRet.val = vaObj[vaRet.h].lastSet
    /\ (vaRet.op = "get_primitive_type" /\ vaRet.val # "undefined"
          /\ vaRet.code \in sfPoints..sfQuads)
          => PrimToForeign(vaRet.val) = vaRet.code
    /\ (vaRet.op = "set_primitive_type" /\ vaRet.val # "undefined")
          => /\ vaObj[vaRet.h].prim = vaRet.code
             /\ ForeignToPrim(vaRet.code) = vaRet.val

\* C3 witness: TrianglesFan was set and read back through code 5.
C3_Witness ==
    /\ vaRet.op = "get_primitive_type"
    /\ vaRet.val = "TrianglesFan"
    /\ vaRet.code = sfTrianglesFan
    /\ vaObj[vaRet.h].lastSet = "TrianglesFan"

\* C4: a native primitive-type code outside 0..6 makes get_primitive_type
\* report a failure, never a variant.
C4_UnmappedCodeFails ==
    (vaRet.op = "get_primitive_type" /\ vaRet.val # "undefined"
       /\ vaRet.code \notin sfPoints..sfQuads)
       => vaRet.val \notin PrimitiveType

\* C5: the shared sound buffer is not destroyed while main's binding or any
\* sound made from it is alive, whatever the order they are dropped in, and
\* it is destroyed exactly once when the last of them is gone.
C5_SharedBufferOutlivesSounds ==
    /\ bufDestroys <= 1
    /\ (LiveSounds # {} \/ bufOwner) => bufDestroys = 0
    /\ bufStrong = (IF bufOwner THEN 1 ELSE 0) + Cardinality(LiveSounds)
    /\ (pc = "exited" /\ LiveSounds = {}) => bufDestroys = 1

\* C5 witness: main has returned, one sound is gone, another still lives
\* and the buffer is still there.
C5_Witness ==
    /\ pc = "exited"
    /\ ~bufOwner
    /\ \E s, t \in SoundSlots : sounds[s].st = "live" /\ sounds[t].st = "dropped"
    /\ bufDestroys = 0

\* C6: get_status on a sound that was never played returns Stopped, and a
\* sound is Playing only after play was called on it.
C6_StoppedBeforePlay ==
    /\ \A s \in LiveSounds : sounds[s].status = "Playing" => sounds[s].played
    /\ (sndRet.op = "get_status" /\ ~sounds[sndRet.s].played)
          => sndRet.val = "Stopped"
    /\ (sndRet.op = "get_status" /\ sndRet.val = "Playing")
          => sounds[sndRet.s].played

\* C6 witness: get_status answered Stopped for a live sound never played.
C6_Witness ==
    /\ sndRet.op = "get_status"
    /\ sounds[sndRet.s].st = "live"
    /\ ~sounds[sndRet.s].played
    /\ sndRet.val = "Stopped"

\* C7: receive(max_size) gives the native call a buffer of at least max_size
\* bytes and returns the bytes it delivered: size <= max_size and data is
\* size bytes long.
C7_ReceiveBufferHoldsMaxSize ==
    (tcpRet.op = "receive" /\ tcpRet.val # "undefined") =>
        /\ tcpRet.size <= tcpRet.max
        /\ Len(tcpRet.data) = tcpRet.size
        /\ tcpRet.cap >= tcpRet.max

\* C8: a new socket is blocking, is_blocking returns the argument of the
\* last set_blocking on that socket, and no other operation changes the
\* blocking mode.
C8_BlockingFollowsSetBlocking ==
    /\ \A h \in Sockets :
         SockLive(h) => SfToBool(sockObj[h].blocking) = sockObj[h].want
    /\ (tcpRet.op = "is_blocking" /\ tcpRet.val # "undefined")
          => tcpRet.flag = sockObj[tcpRet.h].want
    /\ (tcpRet.op = "new" /\ tcpRet.val = "Some")
          => sockObj[tcpRet.h].blocking = SFTRUE

\* C8 witness: is_blocking answered false on a connected socket.
C8_Witness ==
    /\ tcpRet.op = "is_blocking"
    /\ tcpRet.val # "undefined"
    /\ tcpRet.flag = FALSE
    /\ sockObj[tcpRet.h].conn

\* The native entry point of each transfer operation.
EntryPoint(op) ==
    CASE op = "connect"        -> "sfTcpSocket_connect"
      [] op = "send"           -> "sfTcpSocket_send"
      [] op = "receive"        -> "sfTcpSocket_receive"
      [] op = "send_packet"    -> "sfTcpSocket_sendPacket"
      [] op = "receive_packet" -> "sfTcpSocket_receivePacket"

TransferOps == {"connect", "send", "receive", "send_packet", "receive_packet"}

\* C9: connect, send, receive, send_packet and receive_packet each make
\* their one native call once, return its status under the same name, and
\* leave the wrapper's handle as it was, whatever the status.
C9_OneCallStatusPassedOn ==
    (tcpRet.op \in TransferOps /\ tcpRet.val # "undefined") =>
        /\ tcpRet.calls = <<EntryPoint(tcpRet.op)>>
        /\ tcpRet.code \in KnownCodes => tcpRet.status = SocketStatus[tcpRet.code + 1]
        /\ tcpWrap[tcpRet.w] = tcpRet.h
        /\ tcpBad = "none"

\* C9 witness: send returned NotReady after one native call.
C9_Witness ==
    /\ tcpRet.op = "send"
    /\ tcpRet.status = "NotReady"
    /\ tcpRet.calls = <<"sfTcpSocket_send">>
    /\ tcpWrap[tcpRet.w] = tcpRet.h

\* C10: every wrapper holds a non-null handle, and the Packet that
\* receive_packet returns wraps a non-null packet handle.
C10_WrappersHoldNonNull ==
    /\ \A w \in TcpSlots : tcpWrap[w] # NULL
    /\ (tcpRet.op = "receive_packet" /\ tcpRet.val # "undefined")
          => tcpRet.pkt # NULL

===========================================================================
